---- MODULE Spec2Model ----
(***************************************************************************)
(* A model of clair's pgsql datastore: the key/value upsert                *)
(* (InsertKeyValue / GetKeyValue), the namespace identity resolution       *)
(* (insertNamespace with its cache), the layer resolver (FindLayer,        *)
(* getLayerFeatureVersions, loadAffectedBy) and the layer ingestion        *)
(* (InsertLayer, updateDiffFeatureVersions, DeleteLayer).                  *)
(*                                                                         *)
(* Each component has its own specification over the shared variables:     *)
(*   SpecKeyValue  / FairSpecKeyValue   concurrent InsertKeyValue callers  *)
(*   SpecNamespace                      concurrent insertNamespace callers *)
(*   SpecResolve                        FindLayer over every small store   *)
(*   SpecChain                          FindLayer on a chain of two layers *)
(*   SpecIngest                         InsertLayer, DeleteLayer, FindLayer *)
(***************************************************************************)
EXTENDS Integers, Sequences, FiniteSets, TLC

\* number of concurrent callers (goroutines) of the datastore
NumWorkers == 2

Workers == 1..NumWorkers

VARIABLES
    \* ---- KeyValue table and the InsertKeyValue / GetKeyValue callers
    kvTable,      \* the KeyValue table: a sequence of rows [key, value]
    kvFaults,     \* whether the backend may fail a statement (besides the unique conflict)
    kvPc,         \* per worker: "idle", "update" (line 33) or "insert" (line 44)
    kvKey,        \* per worker: the key argument of its current / last call
    kvValue,      \* per worker: the value argument of its current / last call
    kvRet,        \* per worker: what its last call returned ("none": nothing yet, "pending": running)
    kvRetried,    \* per worker: an INSERT of its current / last call hit the unique conflict
    kvLastWrite,  \* per key: the last statement that wrote it and the value its caller gave
    kvGot         \* the last GetKeyValue: [key, value, err]

VARIABLES
    \* ---- Namespace table, the cache and the insertNamespace callers
    nsTable,      \* the Namespace table: a sequence of rows [id, name]
    nsSeq,        \* the last id the table's serial generated
    nsFaults,     \* whether the backend may fail the query
    cacheOn,      \* pgSQL.cache != nil
    nsCache,      \* the cache: a function from the keys it holds to the cached ids
    nsPc,         \* per worker: "idle", "query" (line 34) or "cache" (line 40)
    nsName,       \* per worker: namespace.Name of its current / last call
    nsId,         \* per worker: the local id the query scanned
    nsErr,        \* per worker: the local err of the query (line 34), "none" before it
    nsSeen,       \* per worker: the last id generated when its query was issued
    nsRet         \* per worker: what its last call returned, [id, err]

kvVars == <<kvTable, kvFaults, kvPc, kvKey, kvValue, kvRet, kvRetried, kvLastWrite, kvGot>>

nsVars == <<nsTable, nsSeq, nsFaults, cacheOn, nsCache, nsPc, nsName, nsId, nsErr, nsSeen, nsRet>>

VARIABLES
    \* ---- Layer tables and FindLayer
    layerTable,   \* the Layer table: id -> [name, engineversion, parent_id, namespace_id], 0 for NULL
    layerDiff,    \* the Layer_diff_FeatureVersion table: a set of rows
                  \* [layer_id, featureversion_id, modification]
    found,        \* the last FindLayer call: its arguments, whether it returned, and what
    ingest,       \* the last call if it was an InsertLayer / DeleteLayer: its argument,
                  \* the error it returned and the store it started from
    ingestFaults  \* whether the backend may fail a statement of InsertLayer

layerVars == <<layerTable, layerDiff, found, ingest, ingestFaults>>

VARIABLES
    \* ---- Vulnerability_Affects_FeatureVersion and loadAffectedBy alone
    vafv,         \* the Vulnerability_Affects_FeatureVersion table: a set of rows
    loaded        \* the last loadAffectedBy call: its input ids and what it returned

affVars == <<vafv, loaded>>

VARIABLES
    \* ---- the namespace detector registry (package detectors)
    namespaceDetectors,  \* the map name -> detector
    detLock,      \* namespaceDetectorsLock: the goroutine holding it, 0 when free
    reg,          \* per goroutine: its RegisterNamespaceDetector call [pc, name, f, ret]
    okCount,      \* per name: how many registrations stored a detector under it
    detRead       \* the last DetectNamespace / GetRequiredFilesNamespace call

detVars == <<namespaceDetectors, detLock, reg, okCount, detRead>>

vars == <<kvVars, nsVars, layerVars, affVars, detVars>>

\* what the operations of one component leave alone
notKvVars == <<nsVars, layerVars, affVars, detVars>>
notNsVars == <<kvVars, layerVars, affVars, detVars>>
notLayerVars == <<kvVars, nsVars, affVars, detVars>>
notAffVars == <<kvVars, nsVars, layerVars, detVars>>
notDetVars == <<kvVars, nsVars, layerVars, affVars>>

(***************************************************************************)
(* Key / value store                                                       *)
(***************************************************************************)
Keys == {"", "k1"}
Values == {"", "v1", "v2"}

NoWrite == [stmt |-> "none", value |-> ""]

\* rows of the table holding key k
KVRows(table, k) == {i \in 1..Len(table) : table[i].key = k}

\* UPDATE KeyValue SET value = $1 WHERE key = $2: the new table and RowsAffected
ExecUpdate(table, value, key) ==
    [table |-> [i \in 1..Len(table) |->
                    IF table[i].key = key THEN [key |-> key, value |-> value]
                                          ELSE table[i]],
     n |-> Cardinality(KVRows(table, key))]

\* the uniqueness constraint on KeyValue.key
KeyValueKeyTaken(table, key) == KVRows(table, key) # {}

\* INSERT INTO KeyValue(key, value) VALUES($1, $2): the new table and the error
ExecInsert(table, key, value) ==
    IF KeyValueKeyTaken(table, key)
    THEN [table |-> table, err |-> "ErrUniqueViolation"]
    ELSE [table |-> Append(table, [key |-> key, value |-> value]), err |-> "nil"]

\* outcomes of a statement besides its normal one: the backend failing it
StmtFails == IF kvFaults THEN {FALSE, TRUE} ELSE {FALSE}

\* mutant: the validation joined with && instead of ||
InvalidKeyValue_And(key, value) == key = "" /\ value = ""

\* if key == "" || value == ""
InvalidKeyValue(key, value) == key = "" \/ value = ""

\* mutant: an update of no row taken for a success
Updated_ZeroRows(n) == n >= 0

\* mutant: an update of the one row not taken for a success
Updated_OffByOne(n) == n > 1

\* if n, _ := r.RowsAffected(); n > 0
Updated(n) == n > 0

\* mutant: the unique violation returned to the caller like any other error
AfterInsert_NoRetry(err) == "return"

\* mutant: every error of the INSERT retried
AfterInsert_AnyErrorRetried(err) == IF err # "nil" THEN "continue" ELSE "return"

\* what the loop does with the INSERT's error: "return" it (nil included) or "continue"
AfterInsert(err) ==
    IF err # "nil" /\ err = "ErrUniqueViolation" THEN "continue" ELSE "return"

KVReturn(w, err) ==
    /\ kvPc' = [kvPc EXCEPT ![w] = "idle"]
    /\ kvRet' = [kvRet EXCEPT ![w] = err]

\* InsertKeyValue is called: the validation, then the loop is entered
InsertKeyValue(w, key, value) ==
    /\ kvPc[w] = "idle"
    /\ kvKey' = [kvKey EXCEPT ![w] = key]
    /\ kvValue' = [kvValue EXCEPT ![w] = value]
    /\ kvRetried' = [kvRetried EXCEPT ![w] = FALSE]
    /\ IF InvalidKeyValue(key, value)
       THEN KVReturn(w, "ErrBadRequest")
       ELSE /\ kvPc' = [kvPc EXCEPT ![w] = "update"]
            /\ kvRet' = [kvRet EXCEPT ![w] = "pending"]
    /\ UNCHANGED <<kvTable, kvFaults, kvLastWrite, kvGot>>
    /\ UNCHANGED notKvVars

\* First, try to update.
InsertKeyValue_Update(w) ==
    /\ kvPc[w] = "update"
    /\ \E fails \in StmtFails :
        LET r == ExecUpdate(kvTable, kvValue[w], kvKey[w]) IN
        IF fails
        THEN /\ KVReturn(w, "ErrQuery")
             /\ UNCHANGED <<kvTable, kvLastWrite>>
        ELSE /\ kvTable' = r.table
             /\ IF Updated(r.n)
                THEN KVReturn(w, "nil")
                ELSE /\ kvPc' = [kvPc EXCEPT ![w] = "insert"]
                     /\ UNCHANGED kvRet
             /\ kvLastWrite' =
                    IF r.n > 0
                    THEN [kvLastWrite EXCEPT ![kvKey[w]] =
                              [stmt |-> "UPDATE", value |-> kvValue[w]]]
                    ELSE kvLastWrite
    /\ UNCHANGED <<kvFaults, kvKey, kvValue, kvRetried, kvGot>>
    /\ UNCHANGED notKvVars

\* Try to insert the key.
InsertKeyValue_Insert(w) ==
    /\ kvPc[w] = "insert"
    /\ \E fails \in StmtFails :
        LET r == ExecInsert(kvTable, kvKey[w], kvValue[w])
            err == IF fails THEN "ErrQuery" ELSE r.err
        IN
        /\ kvTable' = IF fails THEN kvTable ELSE r.table
        /\ IF AfterInsert(err) = "continue"
           THEN /\ kvPc' = [kvPc EXCEPT ![w] = "update"]
                /\ kvRetried' = [kvRetried EXCEPT ![w] = TRUE]
                /\ UNCHANGED kvRet
           ELSE /\ KVReturn(w, err)
                /\ UNCHANGED kvRetried
        /\ kvLastWrite' =
               IF err = "nil"
               THEN [kvLastWrite EXCEPT ![kvKey[w]] =
                         [stmt |-> "INSERT", value |-> kvValue[w]]]
               ELSE kvLastWrite
    /\ UNCHANGED <<kvFaults, kvKey, kvValue, kvGot>>
    /\ UNCHANGED notKvVars

\* mutant: the key column selected instead of the value column
ScanValue_SelectsKey(table, key) ==
    IF KVRows(table, key) = {}
    THEN [value |-> "", err |-> "ErrNoRows"]
    ELSE [value |-> key, err |-> "nil"]

\* QueryRow("SELECT value FROM KeyValue WHERE key = $1", key).Scan(&value)
ScanValue(table, key) ==
    IF KVRows(table, key) = {}
    THEN [value |-> "", err |-> "ErrNoRows"]
    ELSE [value |-> table[CHOOSE i \in KVRows(table, key) : TRUE].value, err |-> "nil"]

\* mutant: sql.ErrNoRows handed to the caller
GetResult_NoRowsIsError(scan) == scan

\* if err == sql.ErrNoRows { return "", nil }; return
GetResult(scan) ==
    IF scan.err = "ErrNoRows" THEN [value |-> "", err |-> "nil"] ELSE scan

GetKeyValue(key) ==
    /\ \E fails \in StmtFails :
        LET scan == IF fails THEN [value |-> "", err |-> "ErrQuery"]
                             ELSE ScanValue(kvTable, key)
            res == GetResult(scan)
        IN kvGot' = [key |-> key, value |-> res.value, err |-> res.err]
    /\ UNCHANGED <<kvTable, kvFaults, kvPc, kvKey, kvValue, kvRet, kvRetried, kvLastWrite>>
    /\ UNCHANGED notKvVars

\* the empty KeyValue table and no call made yet
KVStart(faults) ==
    /\ kvTable = <<>>
    /\ kvFaults \in faults
    /\ kvPc = [w \in Workers |-> "idle"]
    /\ kvKey = [w \in Workers |-> ""]
    /\ kvValue = [w \in Workers |-> ""]
    /\ kvRet = [w \in Workers |-> "none"]
    /\ kvRetried = [w \in Workers |-> FALSE]
    /\ kvLastWrite = [k \in Keys |-> NoWrite]
    /\ kvGot = [key |-> "", value |-> "", err |-> "none"]

InsertKeyValue_Loop(w) == InsertKeyValue_Update(w) \/ InsertKeyValue_Insert(w)

NextKeyValue ==
    \/ \E w \in Workers, key \in Keys, value \in Values : InsertKeyValue(w, key, value)
    \/ \E w \in Workers : InsertKeyValue_Update(w)
    \/ \E w \in Workers : InsertKeyValue_Insert(w)
    \/ \E key \in Keys : GetKeyValue(key)

(***************************************************************************)
(* Namespace identity resolution                                           *)
(***************************************************************************)
Names == {"", "debian:7", "ubuntu:14"}

\* entries the cache holds before it evicts one
CacheSize == 1

NoReturn == [id |-> 0, err |-> "none"]

\* rows of the table holding name
NSRows(table, name) == {i \in 1..Len(table) : table[i].name = name}

\* mutant: one key for every name
CacheKey_Constant(name) == "namespace:"

\* "namespace:" + namespace.Name
CacheKey(name) == "namespace:" \o name

\* mutant: a lookup that never finds its key
CacheGet_NeverFound(cache, key) == [found |-> FALSE, id |-> 0]

\* pgSQL.cache.Get(key): [found, id]
CacheGet(cache, key) ==
    IF key \in DOMAIN cache THEN [found |-> TRUE, id |-> cache[key]]
                            ELSE [found |-> FALSE, id |-> 0]

CachePut(cache, keys, key, id) == [k \in keys \cup {key} |-> IF k = key THEN id ELSE cache[k]]

\* pgSQL.cache.Add(key, id): the caches it may leave; a full cache evicts an entry
CacheAdd(cache, key, id) ==
    IF key \in DOMAIN cache \/ Cardinality(DOMAIN cache) < CacheSize
    THEN {CachePut(cache, DOMAIN cache, key, id)}
    ELSE {CachePut(cache, DOMAIN cache \ {victim}, key, id) : victim \in DOMAIN cache}

\* soi_namespace: select the row of the name or, if there is none, insert it;
\* [table, seq, id]
SoiNamespace(table, seq, name) ==
    IF NSRows(table, name) # {}
    THEN [table |-> table, seq |-> seq,
          id |-> table[CHOOSE i \in NSRows(table, name) : TRUE].id]
    ELSE [table |-> Append(table, [id |-> seq + 1, name |-> name]), seq |-> seq + 1,
          id |-> seq + 1]

\* handleError("soi_namespace", err)
HandleError(err) == "ErrBackendException"

\* outcomes of the query besides its normal one: the backend failing it
QueryFails == IF nsFaults THEN {FALSE, TRUE} ELSE {FALSE}

\* a competitor's row of the name was inserted after this caller's query was issued
Raced(w) == \E i \in NSRows(nsTable, nsName[w]) : nsTable[i].id > nsSeen[w]

\* the errors a failing query returns: the row a competitor inserted meanwhile
\* makes the statement's own INSERT violate the uniqueness of Namespace.name
QueryErrors(w) == {"ErrQuery"} \cup (IF Raced(w) THEN {"ErrUniqueViolation"} ELSE {})

\* mutant: no validation of the name
InvalidNamespace_Never(name) == FALSE

\* if namespace.Name == ""
InvalidNamespace(name) == name = ""

\* mutant: the scanned id cached whatever the query's error (0 when it failed)
QueryFailed_Ignored(err) == FALSE

\* if err != nil { return 0, handleError(...) }
QueryFailed(err) == err # "nil"

NSReturn(w, id, err) ==
    /\ nsPc' = [nsPc EXCEPT ![w] = "idle"]
    /\ nsRet' = [nsRet EXCEPT ![w] = [id |-> id, err |-> err]]

\* insertNamespace is called: the validation and the cache lookup
insertNamespace(w, name) ==
    /\ nsPc[w] = "idle"
    /\ nsName' = [nsName EXCEPT ![w] = name]
    /\ nsId' = [nsId EXCEPT ![w] = 0]
    /\ nsErr' = [nsErr EXCEPT ![w] = "none"]
    /\ nsSeen' = [nsSeen EXCEPT ![w] = nsSeq]
    /\ LET hit == CacheGet(nsCache, CacheKey(name)) IN
       IF InvalidNamespace(name)
       THEN NSReturn(w, 0, "ErrBadRequest")
       ELSE IF cacheOn /\ hit.found
       THEN NSReturn(w, hit.id, "nil")
       ELSE /\ nsPc' = [nsPc EXCEPT ![w] = "query"]
            /\ nsRet' = [nsRet EXCEPT ![w] = [id |-> 0, err |-> "pending"]]
    /\ UNCHANGED <<nsTable, nsSeq, nsFaults, cacheOn, nsCache>>
    /\ UNCHANGED notNsVars

\* pgSQL.QueryRow(getQuery("soi_namespace"), namespace.Name).Scan(&id)
insertNamespace_Query(w) ==
    /\ nsPc[w] = "query"
    /\ \E fails \in QueryFails : \E err \in IF fails THEN QueryErrors(w) ELSE {"nil"} :
        LET r == SoiNamespace(nsTable, nsSeq, nsName[w])
            id == IF fails THEN 0 ELSE r.id
        IN
        /\ nsTable' = IF fails THEN nsTable ELSE r.table
        /\ nsSeq' = IF fails THEN nsSeq ELSE r.seq
        /\ nsId' = [nsId EXCEPT ![w] = id]
        /\ nsErr' = [nsErr EXCEPT ![w] = err]
        /\ IF QueryFailed(err)
           THEN NSReturn(w, 0, HandleError(err))
           ELSE IF cacheOn
           THEN /\ nsPc' = [nsPc EXCEPT ![w] = "cache"]
                /\ UNCHANGED nsRet
           ELSE NSReturn(w, id, "nil")
    /\ UNCHANGED <<nsFaults, cacheOn, nsCache, nsName, nsSeen>>
    /\ UNCHANGED notNsVars

\* pgSQL.cache.Add("namespace:"+namespace.Name, id); return id, nil
insertNamespace_CacheAdd(w) ==
    /\ nsPc[w] = "cache"
    /\ nsCache' \in CacheAdd(nsCache, CacheKey(nsName[w]), nsId[w])
    /\ NSReturn(w, nsId[w], "nil")
    /\ UNCHANGED <<nsTable, nsSeq, nsFaults, cacheOn, nsName, nsId, nsErr, nsSeen>>
    /\ UNCHANGED notNsVars

\* a Namespace table, the empty cache and no call made yet
NSStart(table, faults, caches) ==
    /\ nsTable = table
    /\ nsSeq = Len(table)
    /\ nsFaults \in faults
    /\ cacheOn \in caches
    /\ nsCache = [k \in {} |-> 0]
    /\ nsPc = [w \in Workers |-> "idle"]
    /\ nsName = [w \in Workers |-> ""]
    /\ nsId = [w \in Workers |-> 0]
    /\ nsErr = [w \in Workers |-> "none"]
    /\ nsSeen = [w \in Workers |-> Len(table)]
    /\ nsRet = [w \in Workers |-> NoReturn]

NextNamespace ==
    \/ \E w \in Workers, name \in Names : insertNamespace(w, name)
    \/ \E w \in Workers : insertNamespace_Query(w)
    \/ \E w \in Workers : insertNamespace_CacheAdd(w)

(***************************************************************************)
(* Layers: FindLayer, getLayerFeatureVersions, loadAffectedBy              *)
(***************************************************************************)
\* diff entries one layer holds at most
MaxDiff == 2

LayerIDs == {1, 2}
FeatureVersionIDs == {1, 2, 3}

\* the modification kinds a stored row may hold; "upd" is none the code knows
Modifications == {"add", "del", "upd"}

NULL == 0
Nil == "<nil>"

LayerNameOf(id) == IF id = 1 THEN "layer-0" ELSE "layer-1"
LayerNames == {LayerNameOf(id) : id \in LayerIDs}

\* the FeatureVersion, Feature and Namespace rows the diff entries refer to
FeatureVersionTable ==
    [fv \in FeatureVersionIDs |->
        IF fv = 1 THEN [feature_id |-> 1, version |-> "0.5"]
        ELSE IF fv = 2 THEN [feature_id |-> 2, version |-> "1.0"]
        ELSE [feature_id |-> 2, version |-> "2.0"]]

FeatureTable ==
    [f \in {1, 2} |->
        IF f = 1 THEN [name |-> "wechat", namespace_id |-> 1]
                 ELSE [name |-> "openssl", namespace_id |-> 1]]

NamespaceFixture == <<[id |-> 1, name |-> "debian:7"]>>

\* Vulnerability, Vulnerability_FixedIn_Feature and Vulnerability_Affects_FeatureVersion
VulnerabilityTable ==
    [v \in {1, 2} |->
        IF v = 1 THEN [name |-> "CVE-OPENSSL-1-DEB7", namespace_id |-> 1, severity |-> "High"]
                 ELSE [name |-> "CVE-OPENSSL-1-UBU14", namespace_id |-> 2, severity |-> "Low"]]

FixedInTable ==
    [x \in {1, 2} |->
        IF x = 1 THEN [vulnerability_id |-> 1, feature_id |-> 2, version |-> "2.0"]
                 ELSE [vulnerability_id |-> 2, feature_id |-> 2, version |-> "1.0"]]

AffectsTable == {[featureversion_id |-> 2, vulnerability_id |-> 1, fixedin_id |-> 1]}

\* n.name of the Namespace row with this id, Nil without one (LEFT JOIN)
NamespaceNameOf(id) ==
    IF \E i \in 1..Len(nsTable) : nsTable[i].id = id
    THEN nsTable[CHOOSE i \in 1..Len(nsTable) : nsTable[i].id = id].name
    ELSE Nil

\* var layer database.Layer
ZeroLayer ==
    [ID |-> 0, Name |-> "", EngineVersion |-> 0, Parent |-> Nil, Namespace |-> Nil,
     Features |-> {}]

\* s_layer: the row of the name with its parent's and its namespace's name
SLayer(name) ==
    LET ids == {l \in DOMAIN layerTable : layerTable[l].name = name} IN
    IF ids = {}
    THEN [err |-> "ErrNoRows", layer |-> ZeroLayer]
    ELSE LET l == CHOOSE x \in ids : TRUE
             row == layerTable[l]
         IN [err |-> "nil",
             layer |-> [ID |-> l, Name |-> row.name, EngineVersion |-> row.engineversion,
                        Parent |-> IF row.parent_id \in DOMAIN layerTable
                                   THEN layerTable[row.parent_id].name ELSE Nil,
                        Namespace |-> NamespaceNameOf(row.namespace_id),
                        Features |-> {}]]

\* WITH RECURSIVE layer_tree(id, parent_id, depth, path, cycle): its first row
TreeBase(l) ==
    <<[id |-> l, parent_id |-> layerTable[l].parent_id, depth |-> 1, path |-> <<l>>,
       cycle |-> FALSE]>>

\* the row the recursive term adds for the last row lt: the Layer l with l.id = lt.parent_id
TreeNext(lt) ==
    [id |-> lt.parent_id, parent_id |-> layerTable[lt.parent_id].parent_id,
     depth |-> lt.depth + 1, path |-> Append(lt.path, lt.parent_id),
     cycle |-> \E i \in 1..Len(lt.path) : lt.path[i] = lt.parent_id]

\* the recursive term finds a row for the last row of the tree
TreeGrows(tree) == tree[Len(tree)].parent_id \in DOMAIN layerTable

\* the recursion, followed for as many rounds as there are layers; nothing in the
\* recursive term reads the cycle column, so a tree that still grows after as many
\* rounds (it then holds a layer twice) grows for ever
RECURSIVE LayerTree(_, _)
LayerTree(tree, rounds) ==
    IF ~TreeGrows(tree) \/ rounds = 0
    THEN tree
    ELSE LayerTree(Append(tree, TreeNext(tree[Len(tree)])), rounds - 1)

\* mutant: the tree ordered from the target to the root
LTree_DepthAsc(tree) == [k \in 1..Len(tree) |-> tree[k].id]

\* SELECT row_number() over (ORDER BY depth DESC), id FROM layer_tree:
\* the layer ids by ordering, the root first
LTree(tree) == [k \in 1..Len(tree) |-> tree[Len(tree) - k + 1].id]

\* the sequences that enumerate a set once
Perms(S) ==
    {p \in [1..Cardinality(S) -> S] : \A i, j \in 1..Cardinality(S) : p[i] = p[j] => i = j}

\* mutant: the rows of the chain's layers in any order, no ORDER BY
DiffRows_AnyOrder(ltree) ==
    Perms({r \in layerDiff : \E k \in 1..Len(ltree) : r.layer_id = ltree[k]})

\* FROM Layer_diff_FeatureVersion ldf JOIN ltree ON ldf.layer_id = ltree.id
\* ORDER BY ltree.ordering: the row sequences the store may return; the rows of
\* one layer come in any order
RECURSIVE DiffRows(_)
DiffRows(ltree) ==
    IF ltree = <<>>
    THEN {<<>>}
    ELSE {p \o rest :
            p \in Perms({r \in layerDiff : r.layer_id = Head(ltree)}),
            rest \in DiffRows(Tail(ltree))}

\* rows.Scan: the FeatureVersion of a row, with its ID alone when idOnly
ScanFeatureVersion(fv, idOnly) ==
    IF idOnly
    THEN [ID |-> fv, Version |-> "", Feature |-> "", Namespace |-> "", AffectedBy |-> {}]
    ELSE [ID |-> fv, Version |-> FeatureVersionTable[fv].version,
          Feature |-> FeatureTable[FeatureVersionTable[fv].feature_id].name,
          Namespace |-> NamespaceNameOf(FeatureTable[FeatureVersionTable[fv].feature_id].namespace_id),
          AffectedBy |-> {}]

\* mutant: a del row leaves the map as it is
ApplyModification_AddOnly(map, featureVersion, modification) ==
    IF modification = "add"
    THEN [err |-> "nil",
          map |-> [id \in DOMAIN map \cup {featureVersion.ID} |->
                      IF id = featureVersion.ID THEN featureVersion ELSE map[id]]]
    ELSE IF modification = "del"
    THEN [err |-> "nil", map |-> map]
    ELSE [err |-> "ErrInconsistent", map |-> map]

\* mutant: a row of an unknown modification skipped
ApplyModification_SkipsUnknown(map, featureVersion, modification) ==
    IF modification = "add"
    THEN [err |-> "nil",
          map |-> [id \in DOMAIN map \cup {featureVersion.ID} |->
                      IF id = featureVersion.ID THEN featureVersion ELSE map[id]]]
    ELSE IF modification = "del"
    THEN [err |-> "nil", map |-> [id \in DOMAIN map \ {featureVersion.ID} |-> map[id]]]
    ELSE [err |-> "nil", map |-> map]

\* switch modification: what one row does to mapFeatureVersions
ApplyModification(map, featureVersion, modification) ==
    IF modification = "add"
    THEN [err |-> "nil",
          map |-> [id \in DOMAIN map \cup {featureVersion.ID} |->
                      IF id = featureVersion.ID THEN featureVersion ELSE map[id]]]
    ELSE IF modification = "del"
    THEN [err |-> "nil", map |-> [id \in DOMAIN map \ {featureVersion.ID} |-> map[id]]]
    ELSE [err |-> "ErrInconsistent", map |-> map]

\* for rows.Next() { ... }: the map after the rows from the i-th on, or the error
\* of the first row that has one
RECURSIVE ScanRows(_, _, _, _)
ScanRows(rows, i, map, idOnly) ==
    IF i > Len(rows)
    THEN [err |-> "nil", map |-> map]
    ELSE LET r == ApplyModification(map,
                      ScanFeatureVersion(rows[i].featureversion_id, idOnly),
                      rows[i].modification)
         IN IF r.err # "nil" THEN r ELSE ScanRows(rows, i + 1, r.map, idOnly)

\* getLayerFeatureVersions on the rows the query returned: [featureVersions, err]
LayerFeatureVersions(rows, idOnly) ==
    LET r == ScanRows(rows, 1, [id \in {} |-> 0], idOnly) IN
    IF r.err # "nil"
    THEN [featureVersions |-> {}, err |-> r.err]
    ELSE [featureVersions |-> {r.map[id] : id \in DOMAIN r.map}, err |-> "nil"]

\* s_featureversions_vulnerabilities: the vulnerabilities of the rows of
\* Vulnerability_Affects_FeatureVersion for this feature version
\* (vafv.vulnerability_id = v.id, vafv.fixedin_id = vfif.id, v.namespace_id = vn.id);
\* the query compares no version and does not look at the feature's namespace
AffectedBy(fv) ==
    {[Name |-> VulnerabilityTable[a.vulnerability_id].name,
      Namespace |-> NamespaceNameOf(VulnerabilityTable[a.vulnerability_id].namespace_id),
      Severity |-> VulnerabilityTable[a.vulnerability_id].severity,
      FixedBy |-> FixedInTable[a.fixedin_id].version] :
        a \in {x \in vafv :
                  /\ x.featureversion_id = fv
                  /\ x.vulnerability_id \in DOMAIN VulnerabilityTable
                  /\ x.fixedin_id \in DOMAIN FixedInTable
                  /\ NamespaceNameOf(VulnerabilityTable[x.vulnerability_id].namespace_id) # Nil}}

\* mutant: no vulnerability assigned
LoadAffectedBy_None(featureVersions) == featureVersions

\* loadAffectedBy: featureVersions[i].AffectedBy = vulnerabilities[featureVersions[i].ID]
LoadAffectedBy(featureVersions) ==
    {[f EXCEPT !.AffectedBy = AffectedBy(f.ID)] : f \in featureVersions}

FoundNothing ==
    [name |-> "", withFeatures |-> FALSE, withVulnerabilities |-> FALSE,
     status |-> "none", err |-> "none", layer |-> ZeroLayer, rows |-> <<>>]

\* the tables a layer ingestion works on
Store == [layerTable |-> layerTable, layerDiff |-> layerDiff, nsTable |-> nsTable]

\* pgSQL.InsertLayer's argument when the caller sets nothing
ZeroInput ==
    [ID |-> 0, Name |-> "", EngineVersion |-> 0, Parent |-> [valid |-> FALSE, ID |-> 0],
     Namespace |-> Nil, Features |-> {}]

NoIngest == [op |-> "none", layer |-> ZeroInput, err |-> "none", lookup |-> "none",
             tx |-> "none",
             before |-> [layerTable |-> <<>>, layerDiff |-> {}, nsTable |-> <<>>]]

\* the outcomes of FindLayer(name, withFeatures, withVulnerabilities) on the store
FindLayerReturns(name, withFeatures, withVulnerabilities) ==
    LET s == SLayer(name)
        call == [name |-> name, withFeatures |-> withFeatures,
                 withVulnerabilities |-> withVulnerabilities]
        ret(err, layer, rows) ==
            call @@ [status |-> "returned", err |-> err, layer |-> layer, rows |-> rows]
    IN
    IF s.err = "ErrNoRows"
    THEN {ret("ErrNotFound", s.layer, <<>>)}
    ELSE IF ~(withFeatures \/ withVulnerabilities)
    THEN {ret("nil", s.layer, <<>>)}
    ELSE LET tree == LayerTree(TreeBase(s.layer.ID), Cardinality(DOMAIN layerTable)) IN
         IF TreeGrows(tree)
         THEN \* the query does not end by itself: the call does not return, or
              \* the store gives the query up and Query returns its error
              {call @@ [status |-> "hung", err |-> "none", layer |-> s.layer, rows |-> <<>>],
               ret("ErrQuery", s.layer, <<>>)}
         ELSE {LET r == LayerFeatureVersions(rows, ~withFeatures) IN
               IF r.err # "nil"
               THEN ret(r.err, s.layer, rows)
               ELSE ret("nil",
                        [s.layer EXCEPT !.Features =
                            IF withVulnerabilities
                            THEN LoadAffectedBy(r.featureVersions)
                            ELSE r.featureVersions],
                        rows) :
               rows \in DiffRows(LTree(tree))}

\* FindLayer(name, withFeatures, withVulnerabilities)
FindLayer(name, withFeatures, withVulnerabilities) ==
    /\ found' \in FindLayerReturns(name, withFeatures, withVulnerabilities)
    /\ ingest' = NoIngest
    /\ UNCHANGED <<layerTable, layerDiff, ingestFaults>>
    /\ UNCHANGED notLayerVars

DiffEntries == FeatureVersionIDs \X Modifications

\* Layer and Layer_diff_FeatureVersion tables: every layer with a parent_id among
\* parents and at most maxDiff diff entries; layer-0 without a namespace, layer-1
\* in debian:7; no FindLayer call made yet
LayersStart(parents, maxDiff) ==
    /\ \E par \in [LayerIDs -> parents] :
        layerTable = [l \in LayerIDs |->
                        [name |-> LayerNameOf(l), engineversion |-> 1,
                         parent_id |-> par[l],
                         namespace_id |-> IF l = 1 THEN NULL ELSE 1]]
    /\ \E diff \in [LayerIDs -> {S \in SUBSET DiffEntries : Cardinality(S) <= maxDiff}] :
        layerDiff = UNION {{[layer_id |-> l, featureversion_id |-> e[1],
                                  modification |-> e[2]] : e \in diff[l]} : l \in LayerIDs}
    /\ found = FoundNothing
    /\ ingest = NoIngest
    /\ ingestFaults = FALSE

\* the store does not change and a call's outcome does not depend on the calls
\* before it: one call per behaviour reaches every outcome
NextResolve ==
    /\ found.status = "none"
    /\ \E name \in LayerNames \cup {"layer-x"}, withFeatures \in BOOLEAN,
          withVulnerabilities \in BOOLEAN :
            FindLayer(name, withFeatures, withVulnerabilities)

(***************************************************************************)
(* Layer ingestion: InsertLayer, updateDiffFeatureVersions, DeleteLayer    *)
(***************************************************************************)
\* the highest engine version a caller passes
MaxEngineVersion == 2

EngineVersions == 0..MaxEngineVersion

\* layer names callers pass: none, the stored ones and one not stored
LayerNamesAsked == {""} \cup LayerNames \cup {"base"}

\* layer names ingested: layer-1 is left to DeleteLayer and FindLayer
LayerInputNames == {"", "layer-0", "base"}

\* layer.Parent: nil, a Layer the caller made up (ID 0), or one FindLayer returned
ParentInputs == {[valid |-> FALSE, ID |-> 0]} \cup {[valid |-> TRUE, ID |-> i] : i \in {0, 1}}

\* layer.Features: openssl 1.0 (no statement of InsertLayer reads the field)
FeatureInputs == {{2}}

\* the database.Layer values passed to InsertLayer; the caller leaves ID zero
LayerInputs ==
    [ID : {0}, Name : LayerInputNames, EngineVersion : EngineVersions, Parent : ParentInputs,
     Namespace : {Nil} \cup Names, Features : FeatureInputs]

\* the store of TestFindLayer: layer-0, and layer-1 on top of it in debian:7
\* adding wechat 0.5 and openssl 1.0
FixtureLayers ==
    [l \in LayerIDs |->
        [name |-> LayerNameOf(l), engineversion |-> 1,
         parent_id |-> IF l = 1 THEN NULL ELSE 1,
         namespace_id |-> IF l = 1 THEN NULL ELSE 1]]

FixtureDiff ==
    {[layer_id |-> 2, featureversion_id |-> fv, modification |-> "add"] : fv \in {1, 2}}

\* the statement of InsertLayer the backend fails, if any
FailPoints == {"none", "FindLayer", "Begin", "soi_namespace", "layer", "Commit"}

\* mutant: no validation of the layer's name
InvalidLayer_Never(name) == FALSE

\* if layer.Name == ""
InvalidLayer(name) == name = ""

\* insertNamespace called by one caller alone: [id, err] and the Namespace table,
\* its serial and the cache it leaves
InsertNamespaceReturns(name, fails) ==
    LET same(id, err) ==
            [id |-> id, err |-> err, nsTable |-> nsTable, nsSeq |-> nsSeq, nsCache |-> nsCache]
        hit == CacheGet(nsCache, CacheKey(name))
        r == SoiNamespace(nsTable, nsSeq, name)
        err == IF fails THEN "ErrQuery" ELSE "nil"
    IN
    IF InvalidNamespace(name)
    THEN {same(0, "ErrBadRequest")}
    ELSE IF cacheOn /\ hit.found
    THEN {same(hit.id, "nil")}
    ELSE IF QueryFailed(err)
    THEN {same(0, HandleError(err))}
    ELSE {[id |-> r.id, err |-> "nil", nsTable |-> r.table, nsSeq |-> r.seq, nsCache |-> c] :
            c \in IF cacheOn THEN CacheAdd(nsCache, CacheKey(name), r.id) ELSE {nsCache}}

\* insertNamespace not called: layer.Namespace == nil
NamespaceUntouched ==
    [id |-> NULL, err |-> "nil", nsTable |-> nsTable, nsSeq |-> nsSeq, nsCache |-> nsCache]

\* Layer.name is unique
LayerNameTaken(table, name) == \E l \in DOMAIN table : table[l].name = name

\* i_layer: INSERT INTO Layer(name, engineversion, parent_id, namespace_id) ... RETURNING id
ILayer(table, name, engineVersion, parentID, namespaceID, fails) ==
    LET id == IF DOMAIN table = {} THEN 1
              ELSE 1 + CHOOSE l \in DOMAIN table : \A k \in DOMAIN table : k <= l
        row == [name |-> name, engineversion |-> engineVersion, parent_id |-> parentID,
                namespace_id |-> namespaceID]
    IN
    IF fails THEN [err |-> "ErrQuery", id |-> 0, table |-> table]
    ELSE IF LayerNameTaken(table, name)
    THEN [err |-> "ErrUniqueViolation", id |-> 0, table |-> table]
    ELSE [err |-> "nil", id |-> id,
          table |-> [l \in DOMAIN table \cup {id} |-> IF l = id THEN row ELSE table[l]]]

\* u_layer: UPDATE Layer SET engineversion = $2, namespace_id = $3 WHERE id = $1
ULayer(table, id, engineVersion, namespaceID, fails) ==
    IF fails THEN [err |-> "ErrQuery", table |-> table]
    ELSE [err |-> "nil",
          table |-> [l \in DOMAIN table |->
                        IF l = id
                        THEN [table[l] EXCEPT !.engineversion = engineVersion,
                                              !.namespace_id = namespaceID]
                        ELSE table[l]]]

\* updateDiffFeatureVersions(tx, &layer, &existingLayer): its three branches are
\* empty, no statement is executed
UpdateDiffFeatureVersions(diff, layer, existingLayer) == diff

\* what one InsertLayer call returns and leaves behind
\* tx is the state InsertLayer leaves its transaction in: "none" when it began
\* none, "committed", "rolledback", or "open" when it returns without ending it
IngestOut(err, lookup, n, table, diff, tx) ==
    [err |-> err, lookup |-> lookup, layerTable |-> table, layerDiff |-> diff,
     nsTable |-> n.nsTable, nsSeq |-> n.nsSeq, nsCache |-> n.nsCache, tx |-> tx]

\* tx.Commit(): the transaction's Layer and Layer_diff_FeatureVersion tables
\* replace the store's, or the error
Commit(lookup, n, table, diff, fails) ==
    IF fails THEN IngestOut("ErrCommit", lookup, n, layerTable, layerDiff, "rolledback")
    ELSE IngestOut("nil", lookup, n, table, diff, "committed")

\* InsertLayer from "if isExisting" on: f is what FindLayer returned, n what
\* insertNamespace returned
InsertOrUpdate(layer, fail, f, n) ==
    LET isExisting == f.err = "nil"
        namespaceID == n.id
        parentID == IF layer.Parent.valid THEN layer.Parent.ID ELSE NULL
        ins == ILayer(layerTable, layer.Name, layer.EngineVersion, parentID, namespaceID,
                      fail = "layer")
        upd == ULayer(layerTable, layer.ID, layer.EngineVersion, namespaceID, fail = "layer")
        stay(err, tx) == IngestOut(err, f.err, n, layerTable, layerDiff, tx)
    IN
    IF isExisting
    THEN IF layer.Parent.valid /\ layer.Parent.ID = 0
         THEN \* return without tx.Rollback()
              stay("ErrBadRequest", "open")
         ELSE IF ins.err # "nil"
         THEN stay(ins.err, "rolledback")
         ELSE Commit(f.err, n, ins.table,
                     UpdateDiffFeatureVersions(layerDiff, [layer EXCEPT !.ID = ins.id], f.layer),
                     fail = "Commit")
    ELSE IF f.layer.EngineVersion >= layer.EngineVersion
         THEN \* return nil without tx.Commit() or tx.Rollback()
              stay("nil", "open")
         ELSE IF upd.err # "nil"
         THEN stay(upd.err, "rolledback")
         ELSE Commit(f.err, n, upd.table,
                     UpdateDiffFeatureVersions(layerDiff, layer, f.layer),
                     fail = "Commit")

\* the outcomes of InsertLayer(layer) when the backend fails the statement fail
InsertLayerReturns(layer, fail) ==
    LET stay(err, lookup) ==
            IngestOut(err, lookup, NamespaceUntouched, layerTable, layerDiff, "none")
    IN
    IF InvalidLayer(layer.Name)
    THEN {stay("ErrBadRequest", "none")}
    ELSE IF fail = "FindLayer"
    THEN {stay("ErrQuery", "ErrQuery")}
    ELSE UNION {
        IF f.err \notin {"nil", "ErrNotFound"}
        THEN {stay(f.err, f.err)}
        ELSE IF fail = "Begin"
        THEN \* tx is nil and tx.Rollback() dereferences it
             {stay("panic", f.err)}
        ELSE {IF n.err # "nil"
              THEN IngestOut(n.err, f.err, n, layerTable, layerDiff, "rolledback")
              ELSE InsertOrUpdate(layer, fail, f, n) :
              n \in IF layer.Namespace # Nil
                    THEN InsertNamespaceReturns(layer.Namespace, fail = "soi_namespace")
                    ELSE {NamespaceUntouched}} :
        f \in FindLayerReturns(layer.Name, TRUE, FALSE)}

\* InsertLayer(layer)
InsertLayer(layer) ==
    /\ \E fail \in IF ingestFaults THEN FailPoints ELSE {"none"} :
        \E r \in InsertLayerReturns(layer, fail) :
            /\ layerTable' = r.layerTable
            /\ layerDiff' = r.layerDiff
            /\ nsTable' = r.nsTable
            /\ nsSeq' = r.nsSeq
            /\ nsCache' = r.nsCache
            /\ ingest' = [op |-> "InsertLayer", layer |-> layer, err |-> r.err,
                          lookup |-> r.lookup, tx |-> r.tx, before |-> Store]
    /\ found' = FoundNothing
    /\ UNCHANGED <<ingestFaults, nsFaults, cacheOn, nsPc, nsName, nsId, nsErr, nsSeen, nsRet>>
    /\ UNCHANGED <<kvVars, affVars, detVars>>

\* DeleteLayer(name): return nil
DeleteLayer(name) ==
    /\ ingest' = [op |-> "DeleteLayer", layer |-> [ZeroInput EXCEPT !.Name = name],
                  err |-> "nil", lookup |-> "none", tx |-> "none", before |-> Store]
    /\ found' = FoundNothing
    /\ UNCHANGED <<layerTable, layerDiff, ingestFaults>>
    /\ UNCHANGED notLayerVars

\* the empty store or the store of TestFindLayer; no call made yet
IngestStart(faults) ==
    /\ \/ layerTable = <<>> /\ layerDiff = {}
       \/ layerTable = FixtureLayers /\ layerDiff = FixtureDiff
    /\ found = FoundNothing
    /\ ingest = NoIngest
    /\ ingestFaults \in faults

NextIngest ==
    \/ \E layer \in LayerInputs : InsertLayer(layer)
    \/ \E name \in LayerNamesAsked : DeleteLayer(name)
    \/ \E name \in LayerNamesAsked, withFeatures \in BOOLEAN : FindLayer(name, withFeatures, FALSE)

\* layers ingested again and again: the Layer struct of the caller comes with
\* or without the ID of a stored row, under a stored name or a new one
ReingestInputs ==
    [ID : {0, 1}, Name : {"layer-0", "base"}, EngineVersion : EngineVersions,
     Parent : {[valid |-> FALSE, ID |-> 0]}, Namespace : {Nil, "debian:7"},
     Features : FeatureInputs]

NextReingest == \E layer \in ReingestInputs : InsertLayer(layer)

(***************************************************************************)
(* FindLayer on the chain layer-0 <- layer-1                               *)
(***************************************************************************)
\* the modification kinds getLayerFeatureVersions knows
KnownModifications == {"add", "del"}

KnownEntries == FeatureVersionIDs \X KnownModifications

\* layer-1 on top of layer-0 as in TestFindLayer, each layer with at most
\* maxDiff add / del entries; no FindLayer call made yet
ChainStart(maxDiff) ==
    /\ layerTable = FixtureLayers
    /\ \E diff \in [LayerIDs -> {S \in SUBSET KnownEntries : Cardinality(S) <= maxDiff}] :
        layerDiff = UNION {{[layer_id |-> l, featureversion_id |-> e[1],
                                  modification |-> e[2]] : e \in diff[l]} : l \in LayerIDs}
    /\ found = FoundNothing
    /\ ingest = NoIngest
    /\ ingestFaults = FALSE

\* one call per behaviour, as in NextResolve
NextChain ==
    /\ found.status = "none"
    /\ \E name \in LayerNames \cup {"layer-x"}, withFeatures \in BOOLEAN,
          withVulnerabilities \in BOOLEAN :
            FindLayer(name, withFeatures, withVulnerabilities)

(***************************************************************************)
(* loadAffectedBy on its own                                               *)
(***************************************************************************)
\* Namespace rows of both namespaces the vulnerabilities are in
NamespaceFixture2 == NamespaceFixture \o <<[id |-> 2, name |-> "ubuntu:14"]>>

\* the rows Vulnerability_Affects_FeatureVersion may hold: a feature version, a
\* vulnerability and that vulnerability's Vulnerability_FixedIn_Feature row
AffectsRows ==
    {[featureversion_id |-> fv, vulnerability_id |-> x, fixedin_id |-> x] :
        fv \in FeatureVersionIDs, x \in DOMAIN FixedInTable}

NotLoaded == [status |-> "none", ids |-> {}, queried |-> FALSE, featureVersions |-> {}]

\* Vulnerability_Affects_FeatureVersion holds one of these tables; no call made yet
AffStart(tables) ==
    /\ vafv \in tables
    /\ loaded = NotLoaded

\* loadAffectedBy(featureVersions) on the feature versions with these ids:
\* nothing is queried for an empty input
loadAffectedBy(ids) ==
    /\ loaded' = [status |-> "returned", ids |-> ids, queried |-> ids # {},
                  featureVersions |->
                      IF ids = {}
                      THEN {}
                      ELSE LoadAffectedBy({ScanFeatureVersion(fv, FALSE) : fv \in ids})]
    /\ UNCHANGED vafv
    /\ UNCHANGED notAffVars

NextAffected == \E ids \in SUBSET FeatureVersionIDs : loadAffectedBy(ids)

(***************************************************************************)
(* Namespace detector registry (worker/detectors)                          *)
(***************************************************************************)
\* the names a detector is registered under, the empty one included
DetectorNames == {"", "os-release", "lsb-release"}

\* the detectors handed to RegisterNamespaceDetector; "nil" is the nil interface
Detectors == {"nil", "debian", "ubuntu"}

\* the file maps DetectNamespace is asked about
DetectData == {"none", "deb", "ubu", "both"}

\* detector.Detect(data): the namespace the detector reports, "" for none
Detect(f, data) ==
    IF f = "debian" /\ data \in {"deb", "both"} THEN "debian:7"
    ELSE IF f = "ubuntu" /\ data \in {"ubu", "both"} THEN "ubuntu:14"
    ELSE ""

\* detector.GetRequiredFiles()
GetRequiredFiles(f) ==
    IF f = "debian" THEN {"etc/os-release"}
    ELSE IF f = "ubuntu" THEN {"etc/lsb-release"}
    ELSE {}

Idle(ret) == [pc |-> "idle", name |-> "", f |-> "nil", ret |-> ret]

NoRead ==
    [op |-> "none", data |-> "none", seen |-> <<>>, order |-> <<>>, result |-> "",
     consulted |-> 0, files |-> {}, raced |-> FALSE]

\* mutant: the lock never held back anyone
LockFree_Always == TRUE

\* namespaceDetectorsLock is free
LockFree == detLock = 0

\* mutant: no name counts as registered
AlreadyExists_Never(name) == FALSE

\* _, alreadyExists := namespaceDetectors[name]
AlreadyExists(name) == name \in DOMAIN namespaceDetectors

\* mutant: whatever the first detector reports is returned
NonEmpty_Always(namespace) == TRUE

\* if namespace := detector.Detect(data); namespace != ""
NonEmpty(namespace) == namespace # ""

\* the empty registry, the lock free, nobody registering, nothing read yet
DetStart ==
    /\ namespaceDetectors = <<>>
    /\ detLock = 0
    /\ reg = [w \in Workers |-> Idle("none")]
    /\ okCount = [n \in DetectorNames |-> 0]
    /\ detRead = NoRead

\* RegisterNamespaceDetector(name, f) up to the Lock: the call panics on an empty
\* name or a nil detector before it touches the lock or the map
RegisterNamespaceDetector(w, name, f) ==
    /\ reg[w].pc = "idle"
    /\ reg' = [reg EXCEPT ![w] =
                  IF name = "" \/ f = "nil"
                  THEN Idle("panic")
                  ELSE [pc |-> "lock", name |-> name, f |-> f, ret |-> "pending"]]
    /\ detRead' = NoRead
    /\ UNCHANGED <<namespaceDetectors, detLock, okCount>>
    /\ UNCHANGED notDetVars

\* namespaceDetectorsLock.Lock(): blocks while another goroutine holds the lock
RegisterNamespaceDetector_Lock(w) ==
    /\ reg[w].pc = "lock"
    /\ LockFree
    /\ detLock' = w
    /\ reg' = [reg EXCEPT ![w].pc = "check"]
    /\ detRead' = NoRead
    /\ UNCHANGED <<namespaceDetectors, okCount>>
    /\ UNCHANGED notDetVars

\* the lookup under the lock: a registered name panics, and the deferred Unlock
\* runs as the panic unwinds; otherwise the assignment to the map begins
RegisterNamespaceDetector_Check(w) ==
    /\ reg[w].pc = "check"
    /\ IF AlreadyExists(reg[w].name)
       THEN /\ reg' = [reg EXCEPT ![w] = Idle("panic")]
            /\ detLock' = 0
       ELSE /\ reg' = [reg EXCEPT ![w].pc = "store"]
            /\ UNCHANGED detLock
    /\ detRead' = NoRead
    /\ UNCHANGED <<namespaceDetectors, okCount>>
    /\ UNCHANGED notDetVars

\* namespaceDetectors[name] = f completes, the call returns, the deferred Unlock runs
RegisterNamespaceDetector_Store(w) ==
    /\ reg[w].pc = "store"
    /\ namespaceDetectors' =
          [n \in DOMAIN namespaceDetectors \cup {reg[w].name} |->
              IF n = reg[w].name THEN reg[w].f ELSE namespaceDetectors[n]]
    /\ okCount' = [okCount EXCEPT ![reg[w].name] = @ + 1]
    /\ detLock' = 0
    /\ reg' = [reg EXCEPT ![w] = Idle("ok")]
    /\ detRead' = NoRead
    /\ UNCHANGED notDetVars

\* a goroutine is assigning to the map
Storing == {w \in Workers : reg[w].pc = "store"}

\* what a read without the lock finds in the map: the map itself, or, while a
\* goroutine is assigning to it, the map with or without that entry
SeenMaps ==
    {namespaceDetectors} \cup
    {[n \in DOMAIN namespaceDetectors \cup {reg[w].name} |->
        IF n = reg[w].name THEN reg[w].f ELSE namespaceDetectors[n]] : w \in Storing}

\* the loop of DetectNamespace over the map in this order, from position i:
\* the first non-empty namespace and how many detectors were asked
RECURSIVE DetectLoop(_, _, _, _)
DetectLoop(seen, order, i, data) ==
    IF i > Len(order)
    THEN [result |-> "", consulted |-> Len(order)]
    ELSE IF NonEmpty(Detect(seen[order[i]], data))
    THEN [result |-> Detect(seen[order[i]], data), consulted |-> i]
    ELSE DetectLoop(seen, order, i + 1, data)

\* DetectNamespace(data): ranges over the map, in an order the runtime picks,
\* without the lock. A read that overlaps an assignment to the map is a data
\* race: it sees the map with or without the entry, or the runtime stops the
\* program ("fatal error: concurrent map iteration and map write")
DetectNamespace(data) ==
    /\ \/ \E seen \in SeenMaps : \E order \in Perms(DOMAIN seen) :
            detRead' = [op |-> "DetectNamespace", data |-> data, seen |-> seen,
                        order |-> order,
                        result |-> DetectLoop(seen, order, 1, data).result,
                        consulted |-> DetectLoop(seen, order, 1, data).consulted,
                        files |-> {}, raced |-> Storing # {}]
       \/ /\ Storing # {}
          /\ detRead' = [NoRead EXCEPT !.op = "DetectNamespace", !.data = data,
                                       !.seen = namespaceDetectors,
                                       !.result = "fatal", !.raced = TRUE]
    /\ UNCHANGED <<namespaceDetectors, detLock, reg, okCount>>
    /\ UNCHANGED notDetVars

\* GetRequiredFilesNamespace(): the files of every detector of the map, read
\* without the lock as DetectNamespace does
GetRequiredFilesNamespace ==
    /\ \/ \E seen \in SeenMaps : \E order \in Perms(DOMAIN seen) :
            detRead' = [op |-> "GetRequiredFilesNamespace", data |-> "none",
                        seen |-> seen, order |-> order, result |-> "",
                        consulted |-> Len(order),
                        files |-> UNION {GetRequiredFiles(seen[n]) : n \in DOMAIN seen},
                        raced |-> Storing # {}]
       \/ /\ Storing # {}
          /\ detRead' = [NoRead EXCEPT !.op = "GetRequiredFilesNamespace",
                                       !.seen = namespaceDetectors,
                                       !.result = "fatal", !.raced = TRUE]
    /\ UNCHANGED <<namespaceDetectors, detLock, reg, okCount>>
    /\ UNCHANGED notDetVars

NextDetectors ==
    \/ \E w \in Workers, name \in DetectorNames, f \in Detectors :
            RegisterNamespaceDetector(w, name, f)
    \/ \E w \in Workers : RegisterNamespaceDetector_Lock(w)
    \/ \E w \in Workers : RegisterNamespaceDetector_Check(w)
    \/ \E w \in Workers : RegisterNamespaceDetector_Store(w)
    \/ \E data \in DetectData : DetectNamespace(data)
    \/ GetRequiredFilesNamespace

(***************************************************************************)
(* Specifications                                                          *)
(***************************************************************************)
InitKeyValue ==
    /\ KVStart(BOOLEAN) /\ NSStart(<<>>, {FALSE}, {TRUE}) /\ LayersStart({NULL}, 0)
    /\ AffStart({AffectsTable}) /\ DetStart

SpecKeyValue == InitKeyValue /\ [][NextKeyValue]_vars

\* goroutines are scheduled fairly and every statement completes
FairSpecKeyValue == SpecKeyValue /\ \A w \in Workers : WF_vars(InsertKeyValue_Loop(w))

InitNamespace ==
    /\ NSStart(<<>>, BOOLEAN, BOOLEAN) /\ KVStart({FALSE}) /\ LayersStart({NULL}, 0)
    /\ AffStart({AffectsTable}) /\ DetStart

SpecNamespace == InitNamespace /\ [][NextNamespace]_vars

\* every small store, cyclic parent chains and unknown modifications included
InitResolve ==
    /\ LayersStart({NULL} \cup LayerIDs, MaxDiff)
    /\ NSStart(NamespaceFixture, {FALSE}, {TRUE})
    /\ KVStart({FALSE})
    /\ AffStart({AffectsTable}) /\ DetStart

SpecResolve == InitResolve /\ [][NextResolve]_vars

\* every chain of two layers with add / del entries
InitChain ==
    /\ ChainStart(MaxDiff)
    /\ NSStart(NamespaceFixture, {FALSE}, {TRUE})
    /\ KVStart({FALSE})
    /\ AffStart({AffectsTable}) /\ DetStart

SpecChain == InitChain /\ [][NextChain]_vars

\* one caller ingesting, deleting and finding layers
InitIngest ==
    /\ IngestStart(BOOLEAN) /\ NSStart(NamespaceFixture, {FALSE}, BOOLEAN) /\ KVStart({FALSE})
    /\ AffStart({AffectsTable}) /\ DetStart

SpecIngest == InitIngest /\ [][NextIngest]_vars

\* sequences of InsertLayer calls, the backend never failing
InitReingest ==
    /\ IngestStart({FALSE}) /\ NSStart(NamespaceFixture, {FALSE}, {TRUE}) /\ KVStart({FALSE})
    /\ AffStart({AffectsTable}) /\ DetStart

SpecReingest == InitReingest /\ [][NextReingest]_vars

\* every content of Vulnerability_Affects_FeatureVersion over the fixture's
\* feature versions and vulnerabilities
InitAffected ==
    /\ AffStart(SUBSET AffectsRows)
    /\ NSStart(NamespaceFixture2, {FALSE}, {TRUE})
    /\ KVStart({FALSE}) /\ LayersStart({NULL}, 0) /\ DetStart

SpecAffected == InitAffected /\ [][NextAffected]_vars

\* goroutines registering detectors while others read the registry
InitDetectors ==
    /\ DetStart
    /\ NSStart(<<>>, {FALSE}, {TRUE}) /\ KVStart({FALSE}) /\ LayersStart({NULL}, 0)
    /\ AffStart({AffectsTable})

SpecDetectors == InitDetectors /\ [][NextDetectors]_vars

(***************************************************************************)
(* Claims about the key / value store                                      *)
(***************************************************************************)
KVValidArgs(w) == kvKey[w] # "" /\ kvValue[w] # ""

KVReturned(w) == kvPc[w] = "idle" /\ kvRet[w] # "none"

\* C4: concurrent InsertKeyValue calls on the same non-empty key never hand the
\* unique-violation error to their caller; on a store whose only failure is the
\* uniqueness conflict of the INSERT, every call that returns, returns nil.
C4_NoUniqueViolationEscapes ==
    \A w \in Workers :
        /\ kvRet[w] # "ErrUniqueViolation"
        /\ (~kvFaults /\ KVReturned(w) /\ KVValidArgs(w)) => kvRet[w] = "nil"

\* two calls on the same key, one of which ran into the conflict, both returned nil
C4_Witness ==
    /\ ~kvFaults
    /\ \E w, v \in Workers :
        /\ w # v
        /\ kvKey[w] = kvKey[v]
        /\ kvRetried[w] /\ KVReturned(w) /\ kvRet[w] = "nil"
        /\ KVReturned(v) /\ kvRet[v] = "nil"

\* C5: once every InsertKeyValue call has returned, each key some call wrote has
\* exactly one row, and that row holds the value of the last committed write
\* (the last successful UPDATE or INSERT statement).
C5_OneRowLastWrite ==
    (\A w \in Workers : kvPc[w] = "idle") =>
        \A k \in Keys :
            ((\E w \in Workers : kvRet[w] = "nil" /\ kvKey[w] = k) \/ kvLastWrite[k] # NoWrite)
            => /\ Cardinality(KVRows(kvTable, k)) = 1
               /\ \A i \in KVRows(kvTable, k) : kvTable[i].value = kvLastWrite[k].value

\* two calls wrote different values under one key: one row, holding the last one
C5_Witness ==
    /\ \A w \in Workers : kvPc[w] = "idle"
    /\ \E w, v \in Workers :
        /\ kvRet[w] = "nil" /\ kvRet[v] = "nil"
        /\ kvKey[w] = kvKey[v] /\ kvValue[w] # kvValue[v]
        /\ kvRetried[w]
        /\ Cardinality(KVRows(kvTable, kvKey[w])) = 1
        /\ kvLastWrite[kvKey[w]] = [stmt |-> "UPDATE", value |-> kvValue[w]]

\* C6: a call whose INSERT hit the uniqueness conflict never has to insert
\* again: its next UPDATE finds the row; and under fair scheduling every call
\* eventually returns.
C6_Converges ==
    /\ [][\A w \in Workers :
            (kvPc[w] = "update" /\ kvRetried[w]) => kvPc'[w] # "insert"]_vars
    /\ \A w \in Workers : (kvPc[w] # "idle") ~> (kvPc[w] = "idle")

\* a call went round the loop once and returned nil
C6_Witness ==
    \E w \in Workers : kvRetried[w] /\ KVReturned(w) /\ kvRet[w] = "nil"

\* C7: GetKeyValue(k), with the put of (k, v) the last write to k, returns
\* exactly v and no error, whether the put inserted the row or updated it.
C7_PutGetRoundTrip ==
    [][\A k \in Keys :
        (GetKeyValue(k) /\ kvLastWrite[k] # NoWrite) =>
            \/ kvGot'.value = kvLastWrite[k].value /\ kvGot'.err = "nil"
            \/ kvFaults /\ kvGot'.err = "ErrQuery"]_vars

\* a value put over an older one was read back
C7_Witness ==
    /\ kvGot.key = "k1" /\ kvGot.err = "nil" /\ kvGot.value = "v2"
    /\ kvLastWrite["k1"] = [stmt |-> "UPDATE", value |-> "v2"]

\* C8: GetKeyValue on a key without a row returns "" and a nil error; the
\* absence (sql.ErrNoRows) is never what the caller gets.
C8_AbsentKeyIsEmpty ==
    [][\A k \in Keys :
        (GetKeyValue(k) /\ KVRows(kvTable, k) = {}) =>
            /\ kvGot'.err # "ErrNoRows"
            /\ \/ kvGot'.value = "" /\ kvGot'.err = "nil"
               \/ kvFaults /\ kvGot'.err = "ErrQuery"]_vars

\* a key without a row was read: "" and nil
C8_Witness ==
    /\ ~kvFaults
    /\ kvGot = [key |-> "k1", value |-> "", err |-> "nil"]
    /\ KVRows(kvTable, "k1") = {}

\* C9: InsertKeyValue with an empty key or an empty value returns the bad
\* request error without executing a statement: the table is unchanged, the
\* loop is not entered, and no row ever has an empty key or value.
C9_EmptyRejected ==
    /\ [](/\ \A i \in 1..Len(kvTable) : kvTable[i].key # "" /\ kvTable[i].value # ""
          /\ \A w \in Workers : kvPc[w] # "idle" => KVValidArgs(w))
    /\ [][\A w \in Workers, k \in Keys, v \in Values :
            (InsertKeyValue(w, k, v) /\ (k = "" \/ v = "")) =>
                /\ kvRet'[w] = "ErrBadRequest"
                /\ kvPc'[w] = "idle"
                /\ kvTable' = kvTable]_vars

\* a call with an empty value was rejected while the table held a row
C9_Witness ==
    \E w \in Workers :
        /\ kvRet[w] = "ErrBadRequest" /\ kvKey[w] = "k1" /\ kvValue[w] = ""
        /\ Len(kvTable) = 1

(***************************************************************************)
(* Claims about the namespace identity resolution                          *)
(***************************************************************************)
NSSucceeded(w) == nsPc[w] = "idle" /\ nsRet[w].err = "nil"

C10_WitnessNoCache ==
    /\ ~cacheOn
    /\ \E w, v \in Workers :
        /\ w # v
        /\ NSSucceeded(w) /\ NSSucceeded(v)
        /\ nsName[w] = "debian:7" /\ nsName[v] = "debian:7"
        /\ nsRet[w].id = nsRet[v].id /\ nsRet[w].id # 0

\* C11: with an entry for "namespace:"+name in the cache, insertNamespace(name)
\* returns the cached identity at once: no query is issued, and the Namespace
\* table and the cache are left as they were.
C11_CacheHitNoQuery ==
    [][\A w \in Workers, n \in Names :
        (insertNamespace(w, n) /\ cacheOn /\ CacheKey(n) \in DOMAIN nsCache) =>
            /\ nsPc'[w] = "idle"
            /\ nsRet'[w] = [id |-> nsCache[CacheKey(n)], err |-> "nil"]
            /\ nsErr'[w] = "none"
            /\ nsTable' = nsTable /\ nsSeq' = nsSeq /\ nsCache' = nsCache]_vars

\* a call returned an identity without having issued its query
C11_Witness ==
    /\ cacheOn
    /\ \E w \in Workers :
        /\ NSSucceeded(w) /\ nsErr[w] = "none"
        /\ nsName[w] = "debian:7" /\ nsRet[w].id # 0
        /\ CacheKey("debian:7") \in DOMAIN nsCache

\* C12: insertNamespace with an empty name returns the bad request error and
\* identity 0 without issuing the query and without adding to the cache; no row
\* and no cache entry ever holds the empty name.
C12_EmptyNameRejected ==
    /\ [](/\ \A i \in 1..Len(nsTable) : nsTable[i].name # ""
          /\ CacheKey("") \notin DOMAIN nsCache
          /\ \A w \in Workers : nsPc[w] # "idle" => nsName[w] # "")
    /\ [][\A w \in Workers :
            insertNamespace(w, "") =>
                /\ nsPc'[w] = "idle"
                /\ nsRet'[w] = [id |-> 0, err |-> "ErrBadRequest"]
                /\ nsErr'[w] = "none"
                /\ nsTable' = nsTable /\ nsSeq' = nsSeq /\ nsCache' = nsCache]_vars

\* the empty name was rejected while the table and the cache held a namespace
C12_Witness ==
    /\ cacheOn
    /\ Len(nsTable) >= 1
    /\ DOMAIN nsCache # {}
    /\ \E w \in Workers :
        nsPc[w] = "idle" /\ nsName[w] = "" /\ nsRet[w] = [id |-> 0, err |-> "ErrBadRequest"]

\* C13: when the select-or-insert query fails, insertNamespace returns identity
\* 0 with an error and does not touch the cache; every cache entry maps the name
\* of a stored row to that row's id, never to 0.
C13_QueryErrorLeavesCache ==
    /\ [](\A k \in DOMAIN nsCache :
            /\ nsCache[k] # 0
            /\ \E i \in 1..Len(nsTable) :
                CacheKey(nsTable[i].name) = k /\ nsTable[i].id = nsCache[k])
    /\ [][\A w \in Workers :
            (insertNamespace_Query(w) /\ nsErr'[w] # "nil") =>
                /\ nsPc'[w] = "idle"
                /\ nsRet'[w].id = 0 /\ nsRet'[w].err # "nil"
                /\ nsCache' = nsCache /\ nsTable' = nsTable]_vars

\* a caller's query failed with the cache configured: the error was returned and
\* the cache holds nothing for the name
C13_Witness ==
    /\ cacheOn
    /\ \E w \in Workers :
        /\ nsPc[w] = "idle" /\ nsErr[w] = "ErrQuery"
        /\ nsRet[w].id = 0 /\ nsRet[w].err = "ErrBackendException"
        /\ CacheKey(nsName[w]) \notin DOMAIN nsCache

\* C14: insertNamespace retries on a uniqueness violation of the store, as
\* InsertKeyValue does: no call returns to its caller with an error because its
\* query hit the violation.
C14_UniqueViolationRetried ==
    \A w \in Workers :
        ~(nsPc[w] = "idle" /\ nsErr[w] = "ErrUniqueViolation" /\ nsRet[w].err # "nil")

(***************************************************************************)
(* Claims about the layer resolver                                         *)
(***************************************************************************)
\* the stored layer FindLayer was last called for, NULL if there is none
FoundID ==
    IF \E l \in DOMAIN layerTable : layerTable[l].name = found.name
    THEN CHOOSE l \in DOMAIN layerTable : layerTable[l].name = found.name
    ELSE NULL

\* the last FindLayer call was for a stored layer and had to resolve its features
Resolving ==
    /\ found.status # "none"
    /\ found.withFeatures \/ found.withVulnerabilities
    /\ FoundID # NULL

\* following the parents of l leads back to a layer already met
RECURSIVE ChainCyclic(_, _)
ChainCyclic(l, seen) ==
    IF l \notin DOMAIN layerTable THEN FALSE
    ELSE IF l \in seen THEN TRUE
    ELSE ChainCyclic(layerTable[l].parent_id, seen \cup {l})

\* the layers from l up to its root (l's chain being acyclic)
RECURSIVE ChainLayers(_)
ChainLayers(l) ==
    IF l \notin DOMAIN layerTable THEN {}
    ELSE {l} \cup ChainLayers(layerTable[l].parent_id)

ChainRows(l) == {r \in layerDiff : r.layer_id \in ChainLayers(l)}

\* a set of identities after the entries of a sequence: add inserts, delete removes
RECURSIVE ApplyEntries(_, _)
ApplyEntries(set, entries) ==
    IF entries = <<>> THEN set
    ELSE ApplyEntries(
            IF Head(entries).modification = "add"
            THEN set \cup {Head(entries).featureversion_id}
            ELSE set \ {Head(entries).featureversion_id},
            Tail(entries))

\* the sets the chain of l yields: the closure of its parent (the empty set above
\* the root), then its own entries, in an order of the store's choosing
RECURSIVE Closures(_)
Closures(l) ==
    IF l \notin DOMAIN layerTable THEN {{}}
    ELSE {ApplyEntries(base, p) :
            base \in Closures(layerTable[l].parent_id),
            p \in Perms({r \in layerDiff : r.layer_id = l})}

FoundIDs == {f.ID : f \in found.layer.Features}

\* C1: for a layer with an acyclic parent chain whose diff entries are all add or
\* del, FindLayer returns without error exactly the identities got by applying
\* the diff entries of the chain's layers from the root down to the layer.
C1_ResolvesClosure ==
    (/\ Resolving
     /\ ~ChainCyclic(FoundID, {})
     /\ \A r \in ChainRows(FoundID) : r.modification \in {"add", "del"})
    => /\ found.status = "returned"
       /\ found.err = "nil"
       /\ FoundIDs \in Closures(FoundID)

\* layer-0 adds fv1 and fv2, its child layer-1 deletes fv1 and adds fv3:
\* layer-1 resolves to {fv2, fv3}
C1_Witness ==
    /\ layerTable[2].parent_id = 1 /\ layerTable[1].parent_id = NULL
    /\ layerDiff = {[layer_id |-> 1, featureversion_id |-> 1, modification |-> "add"],
                    [layer_id |-> 1, featureversion_id |-> 2, modification |-> "add"],
                    [layer_id |-> 2, featureversion_id |-> 1, modification |-> "del"],
                    [layer_id |-> 2, featureversion_id |-> 3, modification |-> "add"]}
    /\ found.name = "layer-1" /\ found.withFeatures /\ found.status = "returned"
    /\ FoundIDs = {2, 3}

\* C2: when the parent chain of the target contains a cycle, resolving it ends
\* with the inconsistent-database error and no feature versions.
C2_CycleIsInconsistent ==
    (Resolving /\ ChainCyclic(FoundID, {}))
    => /\ found.status = "returned"
       /\ found.err = "ErrInconsistent"
       /\ found.layer.Features = {}

\* C3: a diff entry whose modification is neither add nor del makes the
\* resolution return the inconsistent-database error and no feature versions,
\* whatever the rows before it accumulated; nothing else yields that error.
C3_UnknownModification ==
    (Resolving /\ found.status = "returned" /\ ~ChainCyclic(FoundID, {}))
    => /\ (\E r \in ChainRows(FoundID) : r.modification \notin {"add", "del"})
            <=> found.err = "ErrInconsistent"
       /\ found.err = "ErrInconsistent" => found.layer.Features = {}
       /\ found.err \in {"nil", "ErrInconsistent"}

\* an add was scanned, then a row of an unknown modification: the error, no features
C3_Witness ==
    /\ found.status = "returned" /\ found.err = "ErrInconsistent"
    /\ Len(found.rows) = 2
    /\ found.rows[1].modification = "add" /\ found.rows[2].modification = "upd"
    /\ found.layer.Features = {}

(***************************************************************************)
(* Claims about the layer ingestion                                        *)
(***************************************************************************)
Inserted == ingest.op = "InsertLayer"

\* the Layer rows of the call's name in the store the call started from
RowsBefore == {l \in DOMAIN ingest.before.layerTable :
                  ingest.before.layerTable[l].name = ingest.layer.Name}

\* the call's arguments pass the validations of InsertLayer and insertNamespace
WellFormed ==
    /\ ingest.layer.Name # ""
    /\ ingest.layer.Namespace # ""
    /\ ~(ingest.layer.Parent.valid /\ ingest.layer.Parent.ID = 0)

LayerTablesUnchanged ==
    layerTable = ingest.before.layerTable /\ layerDiff = ingest.before.layerDiff

\* what FindLayer(name, true, false) returns on the store as it is now
FindsNow(name) == FindLayerReturns(name, TRUE, FALSE)

FeatureIDs(f) == {x.ID : x \in f.layer.Features}

\* C15: InsertLayer for a stored name whose stored engine version is greater
\* than or equal to the incoming one returns nil and leaves the Layer row and
\* its diff entries as they were (the backend failing no statement).
C15_ReingestIsNoOp ==
    (/\ Inserted /\ ~ingestFaults /\ WellFormed
     /\ \E l \in RowsBefore :
            ingest.before.layerTable[l].engineversion >= ingest.layer.EngineVersion)
        => ingest.err = "nil" /\ LayerTablesUnchanged

\* C16: InsertLayer for a stored name whose stored engine version is lower than
\* the incoming one returns nil, stores the incoming engine version and replaces
\* the layer's diff entries: FindLayer then returns the features supplied.
C16_HigherVersionReplaces ==
    (/\ Inserted /\ ~ingestFaults /\ WellFormed
     /\ RowsBefore # {}
     /\ \A l \in RowsBefore :
            ingest.before.layerTable[l].engineversion < ingest.layer.EngineVersion)
        => /\ ingest.err = "nil"
           /\ \A l \in RowsBefore :
                /\ l \in DOMAIN layerTable
                /\ layerTable[l].engineversion = ingest.layer.EngineVersion
                /\ {r.featureversion_id : r \in {x \in layerDiff : x.layer_id = l}}
                        = ingest.layer.Features
           /\ \A f \in FindsNow(ingest.layer.Name) :
                f.err = "nil" /\ FeatureIDs(f) = ingest.layer.Features

\* C17: after InsertLayer returned nil for a name that was not stored, the
\* layer is found: FindLayer(name, true, false) returns nil, the layer of that
\* name in the namespace given, and exactly the features ingested (the parent,
\* layer-0 or none, has no feature).
C17_NewLayerIsFound ==
    (Inserted /\ ingest.err = "nil" /\ RowsBefore = {})
        => \A f \in FindsNow(ingest.layer.Name) :
            /\ f.err = "nil"
            /\ f.layer.Name = ingest.layer.Name
            /\ f.layer.Namespace = ingest.layer.Namespace
            /\ FeatureIDs(f) = ingest.layer.Features

\* C18: an InsertLayer that returns an error leaves the durable store exactly
\* as it was before the call: no Layer row, no diff entry and no Namespace row
\* of that call remains.
C18_FailedInsertLeavesStore ==
    (Inserted /\ ingest.err # "nil") => Store = ingest.before

\* C19: InsertLayer with an empty layer name returns the bad request error
\* before FindLayer is called, a transaction is begun or a statement is
\* executed; the store is as it was.
C19_EmptyLayerNameRejected ==
    (Inserted /\ ingest.layer.Name = "")
        => /\ ingest.err = "ErrBadRequest"
           /\ ingest.lookup = "none"
           /\ Store = ingest.before

\* an InsertLayer with an empty name, a namespace not stored yet and a parent
\* was rejected on the store of TestFindLayer
C19_Witness ==
    /\ Inserted
    /\ ingest.layer.Name = "" /\ ingest.layer.Namespace = "ubuntu:14" /\ ingest.layer.Parent.valid
    /\ ingest.err = "ErrBadRequest"
    /\ layerTable = FixtureLayers
    /\ NSRows(nsTable, "ubuntu:14") = {}

\* C20: DeleteLayer on a stored layer that is the parent of another layer
\* returns an error and removes nothing; on a stored layer without children it
\* removes the layer and its diff entries, so that FindLayer returns not found.
C20_DeleteLayerDeletes ==
    (ingest.op = "DeleteLayer" /\ RowsBefore # {})
        => IF \E c \in DOMAIN ingest.before.layerTable :
                ingest.before.layerTable[c].parent_id \in RowsBefore
           THEN ingest.err # "nil" /\ LayerTablesUnchanged
           ELSE /\ ingest.err = "nil"
                /\ ~LayerNameTaken(layerTable, ingest.layer.Name)
                /\ \A r \in layerDiff : r.layer_id \notin RowsBefore
                /\ \A f \in FindsNow(ingest.layer.Name) : f.err = "ErrNotFound"

(***************************************************************************)
(* Claims about FindLayer on a chain                                       *)
(***************************************************************************)
\* the modifications layer l holds for feature version fv
Mods(l, fv) ==
    {r.modification : r \in {x \in layerDiff : x.layer_id = l /\ x.featureversion_id = fv}}

\* no layer holds both an add and a del entry for one feature version
NoConflict == \A l \in LayerIDs, fv \in FeatureVersionIDs : Cardinality(Mods(l, fv)) <= 1

FoundReturned == found.status = "returned"

\* C24: FindLayer resolves what it is asked for: without both flags the layer
\* has no features and no diff row is read; with withFeatures it carries the
\* closure with versions and feature names; vulnerabilities are attached
\* exactly when withVulnerabilities; a layer without parent or namespace comes
\* back with neither; an unknown name gives ErrNotFound with nothing resolved.
C24_FlagsSelectResult ==
    FoundReturned =>
        IF SLayer(found.name).err = "ErrNoRows"
        THEN found.err = "ErrNotFound" /\ found.layer = ZeroLayer /\ found.rows = <<>>
        ELSE /\ found.err = "nil"
             /\ found.layer.Name = found.name
             /\ layerTable[FoundID].parent_id = NULL => found.layer.Parent = Nil
             /\ layerTable[FoundID].namespace_id = NULL => found.layer.Namespace = Nil
             /\ layerTable[FoundID].parent_id # NULL =>
                    found.layer.Parent = layerTable[layerTable[FoundID].parent_id].name
             /\ (~found.withFeatures /\ ~found.withVulnerabilities) =>
                    found.layer.Features = {} /\ found.rows = <<>>
             /\ (found.withFeatures \/ found.withVulnerabilities) =>
                    FoundIDs \in Closures(FoundID)
             /\ found.withFeatures =>
                    \A f \in found.layer.Features :
                        /\ f.Version = FeatureVersionTable[f.ID].version
                        /\ f.Feature = FeatureTable[FeatureVersionTable[f.ID].feature_id].name
             /\ \A f \in found.layer.Features :
                    {v.Name : v \in f.AffectedBy} =
                        IF found.withVulnerabilities
                        THEN {VulnerabilityTable[a.vulnerability_id].name :
                                a \in {x \in vafv : x.featureversion_id = f.ID}}
                        ELSE {}

\* layer-1 was found with its features and their vulnerabilities: openssl 1.0
\* is in the closure and carries its vulnerability
C24_Witness ==
    /\ FoundReturned /\ found.err = "nil"
    /\ found.name = "layer-1" /\ found.withFeatures /\ found.withVulnerabilities
    /\ found.layer.Parent = "layer-0" /\ found.layer.Namespace = "debian:7"
    /\ \E f \in found.layer.Features : f.ID = 2 /\ f.AffectedBy # {}

\* C25: the diffs are applied from the root to the target and keyed by feature
\* version identity: what the target layer-1 says about an identity decides (an
\* add puts it in, whatever layer-0 did; a del takes it out, whatever layer-0
\* did); an identity layer-1 does not mention is in exactly if layer-0 adds it;
\* an identity is in the result once.
C25_RootToTargetByIdentity ==
    (FoundReturned /\ found.name = "layer-1" /\ found.withFeatures) =>
        /\ found.err = "nil"
        /\ Cardinality(found.layer.Features) = Cardinality(FoundIDs)
        /\ \A fv \in FeatureVersionIDs :
            /\ Mods(2, fv) = {"add"} => fv \in FoundIDs
            /\ Mods(2, fv) = {"del"} => fv \notin FoundIDs
            /\ (Mods(2, fv) = {} /\ Mods(1, fv) = {"add"}) => fv \in FoundIDs
            /\ (Mods(2, fv) = {} /\ Mods(1, fv) = {"del"}) => fv \notin FoundIDs
            /\ (Mods(2, fv) = {} /\ Mods(1, fv) = {}) => fv \notin FoundIDs

\* layer-0 adds wechat 0.5 and deletes openssl 1.0, layer-1 deletes the one and
\* adds the other: the result is openssl 1.0 alone
C25_Witness ==
    /\ FoundReturned /\ found.name = "layer-1" /\ found.withFeatures
    /\ Mods(1, 1) = {"add"} /\ Mods(1, 2) = {"del"}
    /\ Mods(2, 1) = {"del"} /\ Mods(2, 2) = {"add"}
    /\ FoundIDs = {2}

\* C29: when no layer of the chain holds both an add and a del entry for one
\* feature version, every order in which the store may return the entries of a
\* layer gives the set that was returned.
C29_OrderWithinLayerIrrelevant ==
    (FoundReturned /\ found.err = "nil" /\ Resolving /\ NoConflict) =>
        \A rows \in DiffRows(LTree(LayerTree(TreeBase(FoundID), Cardinality(DOMAIN layerTable)))) :
            LET r == LayerFeatureVersions(rows, TRUE) IN
            r.err = "nil" /\ {f.ID : f \in r.featureVersions} = FoundIDs

\* layer-1 was resolved over two layers of two entries each, none in conflict
C29_Witness ==
    /\ FoundReturned /\ found.err = "nil" /\ found.name = "layer-1" /\ found.withFeatures
    /\ NoConflict
    /\ Len(found.rows) = 4
    /\ Mods(1, 1) = {"add"} /\ Mods(2, 1) = {"del"}
    /\ FoundIDs # {}

(***************************************************************************)
(* Claims about the transaction of InsertLayer                             *)
(***************************************************************************)
\* C26: every InsertLayer that begins a transaction ends it before it returns,
\* with a commit when it returns nil and a rollback otherwise, on every exit
\* path: the engine-version no-op and the rejection of a parent of identity 0
\* (a validation error) included.
C26_TransactionEnded ==
    ingest.op = "InsertLayer" =>
        /\ ingest.tx # "open"
        /\ ingest.tx = "committed" => ingest.err = "nil"
        /\ ingest.tx = "rolledback" => ingest.err # "nil"
        /\ (ingest.lookup = "nil" /\ ingest.layer.Parent.valid /\ ingest.layer.Parent.ID = 0
                /\ ingest.err = "ErrBadRequest") => ingest.tx = "rolledback"

C30_CacheCoherent ==
    /\ \A k \in DOMAIN nsCache : \E n \in Names \ {""} : k = CacheKey(n)
    /\ \A n \in Names :
        CacheKey(n) \in DOMAIN nsCache =>
            LET hit == CacheGet(nsCache, CacheKey(n))
                miss == SoiNamespace(nsTable, nsSeq, n)
            IN  /\ hit.found /\ hit.id # 0
                /\ Cardinality(NSRows(nsTable, n)) = 1
                /\ \A i \in 1..Len(nsTable) : nsTable[i].id = hit.id <=> nsTable[i].name = n
                /\ miss.id = hit.id /\ miss.table = nsTable

\* the cache holds the id of the second row of the table
C30_Witness ==
    /\ cacheOn
    /\ Len(nsTable) = 2
    /\ \E n \in Names :
        /\ CacheKey(n) \in DOMAIN nsCache
        /\ nsCache[CacheKey(n)] = 2
        /\ nsTable[2].name = n

(***************************************************************************)
(* Claims about loadAffectedBy                                             *)
(***************************************************************************)
\* the order of the versions the fixture holds
VersionRank(version) ==
    IF version = "0.5" THEN 1 ELSE IF version = "1.0" THEN 2 ELSE IF version = "2.0" THEN 3 ELSE 0

\* the vulnerability is in the namespace of the feature version's feature and
\* the feature version is below the version the vulnerability is fixed in for
\* that feature
ShouldAffect(fv, v) ==
    \E x \in DOMAIN FixedInTable :
        /\ FixedInTable[x].vulnerability_id = v
        /\ FixedInTable[x].feature_id = FeatureVersionTable[fv].feature_id
        /\ FeatureTable[FeatureVersionTable[fv].feature_id].namespace_id =
               VulnerabilityTable[v].namespace_id
        /\ VersionRank(FeatureVersionTable[fv].version) < VersionRank(FixedInTable[x].version)

C22_BadRegistrationPanics ==
    [][/\ \A n \in DOMAIN namespaceDetectors :
            n \in DOMAIN namespaceDetectors' /\ namespaceDetectors'[n] = namespaceDetectors[n]
       /\ \A w \in Workers :
            /\ (reg[w].pc = "idle" /\ reg'[w].pc = "lock") =>
                    reg'[w].name # "" /\ reg'[w].f # "nil"
            /\ (reg[w].pc = "check" /\ reg[w].name \in DOMAIN namespaceDetectors) =>
                    reg'[w].pc # "store"
            /\ (reg[w] # reg'[w] /\ reg'[w].ret = "panic") =>
                    /\ namespaceDetectors' = namespaceDetectors
                    /\ detLock' # w
                    /\ reg'[w].pc = "idle"]_vars

\* a registration under a registered name panicked while another goroutine's
\* registration was going on, and the registry holds what was stored first
C22_Witness ==
    /\ DOMAIN namespaceDetectors # {}
    /\ \E w \in Workers : reg[w].ret = "panic"
    /\ \E w \in Workers : reg[w].pc = "lock" /\ reg[w].name \in DOMAIN namespaceDetectors
                            /\ namespaceDetectors[reg[w].name] # reg[w].f

\* C23: DetectNamespace returns "" if and only if every registered detector
\* returns "" for the data; otherwise the non-empty namespace of the first
\* detector in iteration order that reports one, the later ones not being asked;
\* with at most one matching detector the order does not matter.
C23_FirstMatchWins ==
    (detRead.op = "DetectNamespace" /\ detRead.result # "fatal") =>
        LET seen == detRead.seen
            order == detRead.order
            hits == {i \in 1..Len(order) : Detect(seen[order[i]], detRead.data) # ""}
            matching == {n \in DOMAIN seen : Detect(seen[n], detRead.data) # ""}
        IN  /\ detRead.result = "" <=> matching = {}
            /\ hits = {} => detRead.consulted = Len(order)
            /\ hits # {} =>
                   \E i \in hits :
                       /\ \A j \in hits : i <= j
                       /\ detRead.result = Detect(seen[order[i]], detRead.data)
                       /\ detRead.consulted = i
            /\ Cardinality(matching) = 1 =>
                   \A n \in matching : detRead.result = Detect(seen[n], detRead.data)

\* two detectors match the data: the one first in the order answered, the
\* second was not asked
C23_Witness ==
    /\ detRead.op = "DetectNamespace"
    /\ detRead.data = "both"
    /\ Len(detRead.order) = 2
    /\ detRead.consulted = 1
    /\ detRead.result = "ubuntu:14"
    /\ Detect(detRead.seen[detRead.order[2]], "both") = "debian:7"

\* C28: the lock serialises registrations: no two goroutines are past the Lock
\* at once, every name of the registry was stored by exactly one registration
\* (a second one under the same name fails, none under another name is lost);
\* the readers take no lock and race with a registration exactly when they
\* overlap its assignment to the map.
C28_RegistrationsSerialised ==
    /\ \A w, v \in Workers :
            (reg[w].pc \in {"check", "store"} /\ reg[v].pc \in {"check", "store"}) => w = v
    /\ \A w \in Workers : reg[w].pc \in {"check", "store"} <=> detLock = w
    /\ \A n \in DetectorNames : okCount[n] = IF n \in DOMAIN namespaceDetectors THEN 1 ELSE 0
    /\ detRead.raced <=> (detRead.op # "none" /\ \E w \in Workers : reg[w].pc = "store")
    /\ (detRead.op # "none" /\ ~detRead.raced) =>
            detRead.seen = namespaceDetectors /\ detRead.result # "fatal"

\* two goroutines register under the same name: one holds the lock and is
\* assigning to the map, the other waits for the lock, and DetectNamespace
\* reads the map meanwhile
C28_Witness ==
    /\ \E w, v \in Workers :
            /\ reg[w].pc = "store" /\ reg[v].pc = "lock"
            /\ reg[w].name = reg[v].name
    /\ detRead.op = "DetectNamespace"
    /\ detRead.raced
    /\ detRead.result = "fatal"

(***************************************************************************)
(* Claims about the errors of InsertKeyValue                               *)
(***************************************************************************)
\* C31: InsertKeyValue returns an error of its UPDATE or INSERT that is not a
\* uniqueness violation to the caller at once, without retrying: a call goes
\* round the loop again only after its INSERT found the key taken, it goes on
\* from the UPDATE to the INSERT only when the UPDATE ran and found no row, and
\* a call that returns the backend's error returns it from the statement that
\* failed, with nothing written.
C31_OnlyUniqueViolationRetried ==
    [][\A w \in Workers :
        /\ (kvPc[w] = "insert" /\ kvPc'[w] = "update") =>
                /\ KeyValueKeyTaken(kvTable, kvKey[w])
                /\ kvTable' = kvTable
                /\ kvRetried'[w]
                /\ kvRet'[w] = "pending"
        /\ (kvPc[w] = "update" /\ kvPc'[w] = "insert") =>
                /\ ~KeyValueKeyTaken(kvTable, kvKey[w])
                /\ kvTable' = kvTable
        /\ (kvRet[w] # "ErrQuery" /\ kvRet'[w] = "ErrQuery") =>
                /\ kvFaults
                /\ kvPc[w] \in {"update", "insert"}
                /\ kvPc'[w] = "idle"
                /\ kvTable' = kvTable
                /\ kvRetried'[w] = kvRetried[w]
        /\ (kvPc[w] = "insert" /\ kvPc'[w] = "idle" /\ ~KeyValueKeyTaken(kvTable, kvKey[w])) =>
                kvRet'[w] \in {"nil", "ErrQuery"}]_vars

\* a call went round the loop after the uniqueness violation of its INSERT and
\* then returned the backend's error of a later statement
C31_Witness ==
    /\ kvFaults
    /\ \E w \in Workers :
        /\ kvRetried[w]
        /\ kvPc[w] = "idle"
        /\ kvRet[w] = "ErrQuery"
        /\ KeyValueKeyTaken(kvTable, kvKey[w])
====
